---- MODULE Spec2Model ----
(***************************************************************************)
(* Products API: the products router, the Joi request schemas, the         *)
(* validation middleware, the error handler and the Product model (Spec);  *)
(* and the register route of the auth router over the users collection,   *)
(* with several register requests in service at once (AuthSpec).           *)
(*                                                                         *)
(* Representation.                                                         *)
(*  - A JavaScript object is a function from its own keys to values; a     *)
(*    key that is undefined is simply not in the DOMAIN.                   *)
(*  - A JavaScript number is fixed-point: the integer count of            *)
(*    thousandths (10.99 is 10990, 10.999 is 10999, 5 is 5000).            *)
(*  - A JavaScript string that the code inspects (trims, measures,        *)
(*    parses) is a sequence of one-character strings.                      *)
(*  - An error code is tagged with its JavaScript type: S("NO_TOKEN") is   *)
(*    a string, N(11000) a number, so that === compares type and value.    *)
(***************************************************************************)
EXTENDS Integers, Sequences, FiniteSets, TLC

\* ------------------------------------------------------------ objects

EmptyObj == [k \in {} |-> TRUE]

Has(o, k) == k \in DOMAIN o

Put(o, k, v) == [x \in (DOMAIN o) \cup {k} |-> IF x = k THEN v ELSE o[x]]

Pick(o, ks) == [x \in (DOMAIN o) \cap ks |-> o[x]]

Merge(a, b) == [x \in (DOMAIN a) \cup (DOMAIN b) |-> IF x \in DOMAIN b THEN b[x] ELSE a[x]]

S(s) == [str |-> s]

N(n) == [num |-> n]

\* ------------------------------------------------------------ Joi

\* String.prototype.trim, as Joi's string().trim() applies it when converting.
RECURSIVE TrimLeft(_)
TrimLeft(s) == IF s # <<>> /\ Head(s) = " " THEN TrimLeft(Tail(s)) ELSE s

RECURSIVE TrimRight(_)
TrimRight(s) ==
    IF s # <<>> /\ s[Len(s)] = " " THEN TrimRight(SubSeq(s, 1, Len(s) - 1)) ELSE s

Trim(s) == TrimRight(TrimLeft(s))

\* String.prototype.toLowerCase, as Joi's string().lowercase() applies it when
\* converting (the letters the explored strings are made of).
Lower(c) == CASE c = "A" -> "a" [] c = "B" -> "b" [] OTHER -> c

LowerCase(s) == [i \in 1..Len(s) |-> Lower(s[i])]

\* Joi's string().email(): one "@" after a non-empty local part, then a domain
\* of at least two non-empty segments; no blanks. (The list of top-level
\* domains is not looked at.)
IsEmail(s) ==
    /\ \A j \in 1..Len(s) : s[j] # " "
    /\ \E i \in 2..(Len(s) - 3) :
          /\ s[i] = "@"
          /\ \A j \in 1..Len(s) : s[j] = "@" => j = i
          /\ s[i + 1] # "." /\ s[Len(s)] # "."
          /\ \E j \in (i + 2)..(Len(s) - 1) : s[j] = "."
          /\ \A j \in (i + 1)..(Len(s) - 1) : ~(s[j] = "." /\ s[j + 1] = ".")

\* Math.round(value * 10^2) / 10^2 on thousandths: ties go towards +Infinity.
RoundPrecision(n) == ((n + 5) \div 10) * 10

DigitValue ==
    [c \in {"0", "1", "2", "3", "4", "5", "6", "7", "8", "9"} |->
        CASE c = "0" -> 0 [] c = "1" -> 1 [] c = "2" -> 2 [] c = "3" -> 3
          [] c = "4" -> 4 [] c = "5" -> 5 [] c = "6" -> 6 [] c = "7" -> 7
          [] c = "8" -> 8 [] c = "9" -> 9]

RECURSIVE DigitsValue(_)
DigitsValue(s) ==
    IF s = <<>> THEN 0
    ELSE 10 * DigitsValue(SubSeq(s, 1, Len(s) - 1)) + DigitValue[s[Len(s)]]

\* Joi's number() coercion of a query-string value: a string of decimal digits
\* becomes that number, anything else is no number.
ParseNumber(s) ==
    IF s # <<>> /\ \A i \in 1..Len(s) : s[i] \in DOMAIN DigitValue
    THEN [ok |-> TRUE, n |-> 1000 * DigitsValue(s)]
    ELSE [ok |-> FALSE, n |-> 0]

\* One entry of error.details as validate() maps it: field, message, value
\* (the message is Joi's error type; an undefined value is left out).
Detail(field, type) == [field |-> field, message |-> type]

DetailV(field, type, value) == [field |-> field, message |-> type, value |-> value]

\* The rules of a number schema, in the order they were chained.
RECURSIVE NumberRules(_, _, _)
NumberRules(k, n, checks) ==
    IF checks = <<>> THEN <<>>
    ELSE LET c == Head(checks)
             bad == CASE c.r = "positive" -> n <= 0
                      [] c.r = "integer" -> n % 1000 # 0
                      [] c.r = "min" -> n < 1000 * c.limit
                      [] c.r = "max" -> n > 1000 * c.limit
                      [] c.r = "precision" -> FALSE  \* a convert rule: skipped, the value was rounded
         IN (IF bad THEN <<DetailV(k, "number." \o c.r, n)>> ELSE <<>>)
                \o NumberRules(k, n, Tail(checks))

RECURSIVE StringRules(_, _, _)
StringRules(k, v, checks) ==
    IF checks = <<>> THEN <<>>
    ELSE LET c == Head(checks)
             bad == CASE c.r = "min" -> Len(v) < c.limit
                      [] c.r = "max" -> Len(v) > c.limit
                      [] c.r = "email" -> ~IsEmail(v)
         IN (IF bad THEN <<DetailV(k, "string." \o c.r, v)>> ELSE <<>>)
                \o StringRules(k, v, Tail(checks))

\* One key of an object schema. The result says whether the key is in the
\* validated value, its (converted) value, and the violations found.
Absent == [present |-> FALSE, errors |-> <<>>]

Valid(v) == [present |-> TRUE, value |-> v, errors |-> <<>>]

Invalid(errs) == [present |-> FALSE, errors |-> errs]

ValidateNumber(rule, k, raw, fromString) ==
    LET parsed == IF fromString THEN ParseNumber(raw) ELSE [ok |-> TRUE, n |-> raw]
        hasPrecision == \E i \in 1..Len(rule.checks) : rule.checks[i].r = "precision"
        n == IF hasPrecision THEN RoundPrecision(parsed.n) ELSE parsed.n
        errs == NumberRules(k, n, rule.checks)
    IN IF ~parsed.ok THEN Invalid(<<DetailV(k, "number.base", raw)>>)
       ELSE IF errs # <<>> THEN Invalid(errs)
       ELSE Valid(n)

ValidateString(rule, k, raw) ==
    LET trimmed == IF Has(rule, "trim") THEN Trim(raw) ELSE raw
        v == IF Has(rule, "lowercase") THEN LowerCase(trimmed) ELSE trimmed
        errs == StringRules(k, v, rule.checks)
    IN IF Has(rule, "valid")
       THEN IF v \in rule.valid THEN Valid(v) ELSE Invalid(<<DetailV(k, "any.only", v)>>)
       ELSE IF v = <<>>
       THEN IF Has(rule, "allowEmpty") THEN Valid(v)
            ELSE Invalid(<<DetailV(k, "string.empty", v)>>)
       ELSE IF errs # <<>> THEN Invalid(errs)
       ELSE Valid(v)

ValidateKey(rule, k, obj, fromString) ==
    IF ~Has(obj, k)
    THEN IF Has(rule, "default") THEN Valid(rule.default)
         ELSE IF Has(rule, "required") THEN Invalid(<<Detail(k, "any.required")>>)
         ELSE Absent
    ELSE IF rule.type = "number" THEN ValidateNumber(rule, k, obj[k], fromString)
         ELSE ValidateString(rule, k, obj[k])

\* The keys of an object schema, in declaration order: the validated value
\* and the violations gathered so far are carried along.
AddKey(acc, k, r) ==
    [value |-> IF r.present THEN Put(acc.value, k, r.value) ELSE acc.value,
     errors |-> acc.errors \o r.errors]

RECURSIVE ValidateKeys(_, _, _, _, _)
ValidateKeys(schema, keys, obj, fromString, acc) ==
    IF keys = <<>> THEN acc
    ELSE ValidateKeys(schema, Tail(keys), obj, fromString,
            AddKey(acc, Head(keys),
                   ValidateKey(schema.rules[Head(keys)], Head(keys), obj, fromString)))

\* The keys of the input that the schema does not declare, in a fixed order.
RECURSIVE UnknownErrors(_, _)
UnknownErrors(obj, ks) ==
    IF ks = {} THEN <<>>
    ELSE LET k == CHOOSE x \in ks : TRUE
         IN <<DetailV(k, "object.unknown", obj[k])>> \o UnknownErrors(obj, ks \ {k})

\* querySchema's custom rule (part_000 175-181): JavaScript truthiness, so a
\* bound that is 0 counts as not given.
Truthy(value, k) == Has(value, k) /\ value[k] # 0

PriceRangeInvalid(value) ==
    Truthy(value, "minPrice") /\ Truthy(value, "maxPrice")
        /\ value.maxPrice < value.minPrice

ObjectRules(schema, value) ==
    (IF Has(schema, "min") /\ Cardinality(DOMAIN value) < schema.min
        THEN <<DetailV("", "object.min", value)>> ELSE <<>>)
    \o (IF Has(schema, "custom") /\ PriceRangeInvalid(value)
        THEN <<DetailV("", "any.invalid", value)>> ELSE <<>>)

\* schema.validate(input, options): Joi's object validation with convert on
\* (its default). Unknown keys are stripped before they can be refused; the
\* object's own rules run only when no key failed; abortEarly keeps only the
\* first violation.
JoiValidate(schema, input, fromString, options) ==
    LET declared == {schema.keys[i] : i \in 1..Len(schema.keys)}
        unknown == (DOMAIN input) \ declared
        kids == ValidateKeys(schema, schema.keys, input, fromString,
                             [value |-> EmptyObj, errors |-> <<>>])
        kept == IF options.stripUnknown \/ ~options.allowUnknown THEN kids.value
                ELSE Merge(Pick(input, unknown), kids.value)
        unknownErrs == IF options.stripUnknown \/ options.allowUnknown THEN <<>>
                       ELSE UnknownErrors(input, unknown)
        baseErrs == kids.errors \o unknownErrs
        errs == IF baseErrs # <<>> THEN baseErrs ELSE ObjectRules(schema, kept)
    IN [value |-> kept,
        errors |-> IF options.abortEarly /\ errs # <<>> THEN <<Head(errs)>> ELSE errs]

\* ------------------------------------------------------------ schemas

createProductSchema ==
    [keys |-> <<"name", "description", "price", "category", "stock">>,
     rules |->
       [name |-> [type |-> "string", trim |-> TRUE, required |-> TRUE,
                  checks |-> <<[r |-> "min", limit |-> 1], [r |-> "max", limit |-> 100]>>],
        description |-> [type |-> "string", trim |-> TRUE, allowEmpty |-> TRUE,
                  checks |-> <<[r |-> "max", limit |-> 500]>>],
        price |-> [type |-> "number", required |-> TRUE,
                  checks |-> <<[r |-> "positive"], [r |-> "precision", limit |-> 2]>>],
        category |-> [type |-> "string", trim |-> TRUE, required |-> TRUE,
                  checks |-> <<[r |-> "min", limit |-> 1]>>],
        stock |-> [type |-> "number", required |-> TRUE,
                  checks |-> <<[r |-> "integer"], [r |-> "min", limit |-> 0]>>]]]

updateProductSchema ==
    [keys |-> <<"name", "description", "price", "category", "stock">>,
     min |-> 1,
     rules |->
       [name |-> [type |-> "string", trim |-> TRUE,
                  checks |-> <<[r |-> "min", limit |-> 1], [r |-> "max", limit |-> 100]>>],
        description |-> [type |-> "string", trim |-> TRUE, allowEmpty |-> TRUE,
                  checks |-> <<[r |-> "max", limit |-> 500]>>],
        price |-> [type |-> "number",
                  checks |-> <<[r |-> "positive"], [r |-> "precision", limit |-> 2]>>],
        category |-> [type |-> "string", trim |-> TRUE,
                  checks |-> <<[r |-> "min", limit |-> 1]>>],
        stock |-> [type |-> "number",
                  checks |-> <<[r |-> "integer"], [r |-> "min", limit |-> 0]>>]]]

\* The sort whitelist. A sort value is only ever compared whole, so it stays
\* an ordinary string.
SortFields ==
    {"name", "price", "category", "stock", "createdAt", "updatedAt",
     "-name", "-price", "-category", "-stock", "-createdAt", "-updatedAt"}

\* querySchema with the .max(100) of limit left out.
querySchemaUnboundedLimit ==
    [keys |-> <<"page", "limit", "sort", "category", "minPrice", "maxPrice", "search">>,
     custom |-> TRUE,
     rules |->
       [page |-> [type |-> "number", default |-> 1000,
                  checks |-> <<[r |-> "integer"], [r |-> "min", limit |-> 1]>>],
        limit |-> [type |-> "number", default |-> 10000,
                  checks |-> <<[r |-> "integer"], [r |-> "min", limit |-> 1]>>],
        sort |-> [type |-> "string", valid |-> SortFields, default |-> "-createdAt",
                  checks |-> <<>>],
        category |-> [type |-> "string", trim |-> TRUE, checks |-> <<>>],
        minPrice |-> [type |-> "number", checks |-> <<[r |-> "min", limit |-> 0]>>],
        maxPrice |-> [type |-> "number", checks |-> <<[r |-> "min", limit |-> 0]>>],
        search |-> [type |-> "string", trim |-> TRUE,
                  checks |-> <<[r |-> "max", limit |-> 100]>>]]]

querySchema ==
    [keys |-> <<"page", "limit", "sort", "category", "minPrice", "maxPrice", "search">>,
     custom |-> TRUE,
     rules |->
       [page |-> [type |-> "number", default |-> 1000,
                  checks |-> <<[r |-> "integer"], [r |-> "min", limit |-> 1]>>],
        limit |-> [type |-> "number", default |-> 10000,
                  checks |-> <<[r |-> "integer"], [r |-> "min", limit |-> 1],
                               [r |-> "max", limit |-> 100]>>],
        sort |-> [type |-> "string", valid |-> SortFields, default |-> "-createdAt",
                  checks |-> <<>>],
        category |-> [type |-> "string", trim |-> TRUE, checks |-> <<>>],
        minPrice |-> [type |-> "number", checks |-> <<[r |-> "min", limit |-> 0]>>],
        maxPrice |-> [type |-> "number", checks |-> <<[r |-> "min", limit |-> 0]>>],
        search |-> [type |-> "string", trim |-> TRUE,
                  checks |-> <<[r |-> "max", limit |-> 100]>>]]]

registerSchema ==
    [keys |-> <<"email", "password">>,
     rules |->
       [email |-> [type |-> "string", lowercase |-> TRUE, required |-> TRUE,
                   checks |-> <<[r |-> "email"]>>],
        password |-> [type |-> "string", required |-> TRUE,
                   checks |-> <<[r |-> "min", limit |-> 6]>>]]]

\* ------------------------------------------------------------ validation gate

\* The options with abortEarly left at Joi's default.
validateOptionsAbortEarly ==
    [abortEarly |-> TRUE, allowUnknown |-> FALSE, stripUnknown |-> TRUE]

\* The options with unknown keys let through instead of stripped.
validateOptionsAllowUnknown ==
    [abortEarly |-> FALSE, allowUnknown |-> TRUE, stripUnknown |-> FALSE]

\* The options validate() hands to schema.validate (validation.js 3-7).
validateOptions == [abortEarly |-> FALSE, allowUnknown |-> FALSE, stripUnknown |-> TRUE]

SchemaOf(name) ==
    CASE name = "createProductSchema" -> createProductSchema
      [] name = "updateProductSchema" -> updateProductSchema
      [] name = "querySchema" -> querySchema
      [] name = "registerSchema" -> registerSchema

\* validate() with the return before res.status(400) lost: it answers and
\* still goes on.
validateNoReturn(schema, property, request) ==
    LET r == JoiValidate(SchemaOf(schema), request[property], property = "query",
                         validateOptions)
    IN [sends |-> IF r.errors # <<>>
                  THEN <<[status |-> 400,
                          body |-> [success |-> FALSE,
                                    error |-> [message |-> "Validation failed",
                                               code |-> S("VALIDATION_ERROR"),
                                               details |-> r.errors]]]>>
                  ELSE <<>>,
        next |-> TRUE,
        request |-> [request EXCEPT ![property] = r.value]]

\* validate(schema, property)(req, res, next): what it sends, whether it calls
\* next(), and the request it leaves behind.
validate(schema, property, request) ==
    LET r == JoiValidate(SchemaOf(schema), request[property], property = "query",
                         validateOptions)
    IN IF r.errors # <<>>
       THEN [sends |-> <<[status |-> 400,
                          body |-> [success |-> FALSE,
                                    error |-> [message |-> "Validation failed",
                                               code |-> S("VALIDATION_ERROR"),
                                               details |-> r.errors]]]>>,
             next |-> FALSE,
             request |-> request]
       ELSE [sends |-> <<>>,
             next |-> TRUE,
             request |-> [request EXCEPT ![property] = r.value]]

\* ------------------------------------------------------------ error handler

Falsy(o, k) == ~Has(o, k) \/ o[k] \in {S(""), N(0)}

\* What a bad ObjectId is answered with, were it a bad request.
CastErrorResponseBadRequest ==
    [message |-> "Resource not found", code |-> S("INVALID_ID"), statusCode |-> 400]

\* What the error handler makes of a CastError (part_001 9-16).
CastErrorResponse ==
    [message |-> "Resource not found", code |-> S("INVALID_ID"), statusCode |-> 404]

\* A duplicate key answered as a conflict.
DuplicateKeyResponseConflict(e) ==
    LET field == CHOOSE k \in DOMAIN e.keyValue : TRUE
    IN [message |-> field \o " already exists", code |-> S("DUPLICATE_FIELD"),
        statusCode |-> 409, details |-> [field |-> field, value |-> e.keyValue[field]]]

\* What the error handler makes of a duplicate key (part_001 18-28); the
\* field is the first key of err.keyValue, which holds one.
DuplicateKeyResponse(e) ==
    LET field == CHOOSE k \in DOMAIN e.keyValue : TRUE
    IN [message |-> field \o " already exists", code |-> S("DUPLICATE_FIELD"),
        statusCode |-> 400, details |-> [field |-> field, value |-> e.keyValue[field]]]

\* The stack shown everywhere but in production.
StackShownOutsideProduction(env) == env # "production"

\* process.env.NODE_ENV === 'development' (part_001 74).
StackShown(env) == env = "development"

errorHandler(e, env) ==
    LET name == IF Has(e, "name") THEN e.name ELSE ""
        \* { ...err } copies the own enumerable properties; message is set next
        spread == Pick(e, (DOMAIN e) \ {"name", "message", "stack"})
        error0 == IF Has(e, "message") THEN Put(spread, "message", e.message) ELSE spread
        error1 == IF name = "CastError"
                  THEN CastErrorResponse
                  ELSE error0
        error2 == IF Has(e, "code") /\ e.code = N(11000)
                  THEN DuplicateKeyResponse(e)
                  ELSE error1
        error3 == IF name = "ValidationError"
                  THEN [message |-> "Validation failed", code |-> S("VALIDATION_ERROR"),
                        statusCode |-> 400, details |-> e.errors]
                  ELSE error2
        error4 == IF name = "JsonWebTokenError"
                  THEN [message |-> "Invalid token", code |-> S("INVALID_TOKEN"),
                        statusCode |-> 401]
                  ELSE error3
        error == IF name = "TokenExpiredError"
                 THEN [message |-> "Token expired", code |-> S("TOKEN_EXPIRED"),
                       statusCode |-> 401]
                 ELSE error4
        statusCode == IF Has(error, "statusCode") /\ error.statusCode # 0
                      THEN error.statusCode ELSE 500
        message == IF Has(error, "message") /\ error.message # ""
                   THEN error.message ELSE "Internal Server Error"
        code == IF Falsy(error, "code") THEN S("INTERNAL_ERROR") ELSE error.code
        base == [message |-> message, code |-> code]
        withDetails == IF Has(error, "details") THEN Put(base, "details", error.details)
                       ELSE base
        \* JSON leaves out a stack that is undefined
        withStack == IF StackShown(env) /\ Has(e, "stack")
                     THEN Put(withDetails, "stack", e.stack) ELSE withDetails
    IN [status |-> statusCode, body |-> [success |-> FALSE, error |-> withStack]]

\* ------------------------------------------------------------ Product model

\* The setters of productSchema: trim on name, description and category.
ProductCast(doc) ==
    [k \in DOMAIN doc |->
        IF k \in {"name", "description", "category"} THEN Trim(doc[k]) ELSE doc[k]]

\* The validators of productSchema (Product.js 3-34), one entry per failing path.
ProductValidate(doc) ==
    (IF ~Has(doc, "name") \/ doc.name = <<>>
        THEN <<[field |-> "name", message |-> "Product name is required"]>>
     ELSE IF Len(doc.name) > 100
        THEN <<[field |-> "name", message |-> "Product name cannot exceed 100 characters"]>>
     ELSE <<>>)
    \o (IF Has(doc, "description") /\ Len(doc.description) > 500
        THEN <<[field |-> "description",
                message |-> "Description cannot exceed 500 characters"]>>
        ELSE <<>>)
    \o (IF ~Has(doc, "price")
        THEN <<[field |-> "price", message |-> "Product price is required"]>>
     ELSE IF doc.price < 0
        THEN <<[field |-> "price", message |-> "Price cannot be negative"]>>
     ELSE <<>>)
    \o (IF ~Has(doc, "category") \/ doc.category = <<>>
        THEN <<[field |-> "category", message |-> "Product category is required"]>>
        ELSE <<>>)
    \o (IF ~Has(doc, "stock")
        THEN <<[field |-> "stock", message |-> "Stock quantity is required"]>>
     ELSE IF doc.stock < 0
        THEN <<[field |-> "stock", message |-> "Stock cannot be negative"]>>
     ELSE IF doc.stock % 1000 # 0
        THEN <<[field |-> "stock", message |-> "Stock must be an integer"]>>
     ELSE <<>>)

\* The pre('save') hook with the rounding left out.
PreSaveNoRounding(doc) == doc

\* productSchema.pre('save') (Product.js 52-58).
PreSave(doc) ==
    IF Has(doc, "price") /\ doc.price # 0
    THEN [doc EXCEPT !.price = RoundPrecision(doc.price)]
    ELSE doc

\* The paths productSchema declares; a document keeps these, its _id and its
\* creation time.
ProductPaths == {"name", "description", "price", "category", "stock"}

\* document.save() on a Product: the setters cast the paths, the validators
\* run, and only a document that passed reaches the pre('save') hook and the
\* collection.
ProductSave(doc) ==
    LET cast == ProductCast(Pick(doc, ProductPaths \cup {"createdAt"}))
        failures == ProductValidate(cast)
    IN IF failures # <<>>
       THEN [ok |-> FALSE, errors |-> failures]
       ELSE [ok |-> TRUE, doc |-> PreSave(cast), errors |-> <<>>]

\* ------------------------------------------------------------ products router

\* A path below /api/v1/products: <<>> is "/", <<[lit |-> "stats"]>> is "/stats",
\* <<[oid |-> n]>> is "/<the n-th ObjectId, in hex>". A segment that is no
\* ObjectId is a literal.
Stats == [lit |-> "stats"]

\* Routes with the guard of DELETE /:id left out.
RoutesDeleteUnguarded ==
    << [method |-> "GET", path |-> "/stats", stack |-> <<[fn |-> "getProductStats"]>>],
       [method |-> "GET", path |-> "/",
        stack |-> <<[fn |-> "validate", schema |-> "querySchema", property |-> "query"],
                    [fn |-> "getProducts"]>>],
       [method |-> "GET", path |-> "/:id", stack |-> <<[fn |-> "getProduct"]>>],
       [method |-> "POST", path |-> "/",
        stack |-> <<[fn |-> "auth"],
                    [fn |-> "validate", schema |-> "createProductSchema", property |-> "body"],
                    [fn |-> "createProduct"]>>],
       [method |-> "PUT", path |-> "/:id",
        stack |-> <<[fn |-> "auth"],
                    [fn |-> "validate", schema |-> "updateProductSchema", property |-> "body"],
                    [fn |-> "updateProduct"]>>],
       [method |-> "DELETE", path |-> "/:id", stack |-> <<[fn |-> "deleteProduct"]>>] >>

\* Routes with the gate of POST / and PUT /:id put before the guard.
RoutesGateFirst ==
    << [method |-> "GET", path |-> "/stats", stack |-> <<[fn |-> "getProductStats"]>>],
       [method |-> "GET", path |-> "/",
        stack |-> <<[fn |-> "validate", schema |-> "querySchema", property |-> "query"],
                    [fn |-> "getProducts"]>>],
       [method |-> "GET", path |-> "/:id", stack |-> <<[fn |-> "getProduct"]>>],
       [method |-> "POST", path |-> "/",
        stack |-> <<[fn |-> "validate", schema |-> "createProductSchema", property |-> "body"],
                    [fn |-> "auth"],
                    [fn |-> "createProduct"]>>],
       [method |-> "PUT", path |-> "/:id",
        stack |-> <<[fn |-> "validate", schema |-> "updateProductSchema", property |-> "body"],
                    [fn |-> "auth"],
                    [fn |-> "updateProduct"]>>],
       [method |-> "DELETE", path |-> "/:id",
        stack |-> <<[fn |-> "auth"], [fn |-> "deleteProduct"]>>] >>

\* Routes with GET /:id registered before GET /stats.
RoutesIdFirst ==
    << [method |-> "GET", path |-> "/:id", stack |-> <<[fn |-> "getProduct"]>>],
       [method |-> "GET", path |-> "/stats", stack |-> <<[fn |-> "getProductStats"]>>],
       [method |-> "GET", path |-> "/",
        stack |-> <<[fn |-> "validate", schema |-> "querySchema", property |-> "query"],
                    [fn |-> "getProducts"]>>],
       [method |-> "POST", path |-> "/",
        stack |-> <<[fn |-> "auth"],
                    [fn |-> "validate", schema |-> "createProductSchema", property |-> "body"],
                    [fn |-> "createProduct"]>>],
       [method |-> "PUT", path |-> "/:id",
        stack |-> <<[fn |-> "auth"],
                    [fn |-> "validate", schema |-> "updateProductSchema", property |-> "body"],
                    [fn |-> "updateProduct"]>>],
       [method |-> "DELETE", path |-> "/:id",
        stack |-> <<[fn |-> "auth"], [fn |-> "deleteProduct"]>>] >>

Routes ==
    << [method |-> "GET", path |-> "/stats", stack |-> <<[fn |-> "getProductStats"]>>],
       [method |-> "GET", path |-> "/",
        stack |-> <<[fn |-> "validate", schema |-> "querySchema", property |-> "query"],
                    [fn |-> "getProducts"]>>],
       [method |-> "GET", path |-> "/:id", stack |-> <<[fn |-> "getProduct"]>>],
       [method |-> "POST", path |-> "/",
        stack |-> <<[fn |-> "auth"],
                    [fn |-> "validate", schema |-> "createProductSchema", property |-> "body"],
                    [fn |-> "createProduct"]>>],
       [method |-> "PUT", path |-> "/:id",
        stack |-> <<[fn |-> "auth"],
                    [fn |-> "validate", schema |-> "updateProductSchema", property |-> "body"],
                    [fn |-> "updateProduct"]>>],
       [method |-> "DELETE", path |-> "/:id",
        stack |-> <<[fn |-> "auth"], [fn |-> "deleteProduct"]>>] >>

\* Express path matching for the three patterns the router uses.
Matches(route, method, path) ==
    /\ route.method = method
    /\ CASE route.path = "/" -> path = <<>>
         [] route.path = "/stats" -> path = <<Stats>>
         [] route.path = "/:id" -> Len(path) = 1

HasRoute(method, path) == \E i \in 1..Len(Routes) : Matches(Routes[i], method, path)

\* The router runs the first route, in registration order, that matches.
Dispatch(method, path) ==
    LET i == CHOOSE j \in 1..Len(Routes) :
                 /\ Matches(Routes[j], method, path)
                 /\ \A h \in 1..(j - 1) : ~Matches(Routes[h], method, path)
    IN Routes[i].stack

\* ------------------------------------------------------------ state

MaxCreates == 2

VARIABLES
    nodeEnv,     \* process.env.NODE_ENV
    products,    \* the products collection: ObjectId -> document
    created,     \* how many documents were ever inserted (the ObjectId and clock source)
    deletedIds,  \* history: the ids a DELETE has removed
    req,         \* the request being served, as the middleware so far left it
    received,    \* history: req as it arrived
    before,      \* history: the collection when req arrived
    chain,       \* the middleware still to run for req; <<>> when req is finished
    err,         \* what was passed to next(err) for req: <<>> or <<error>>
    faulted,     \* history: the store itself failed while serving req
    res,         \* the response sent for req (status 0: none yet)
    sent,        \* how many responses were written for req
    ran,         \* history: the middleware and handlers that ran for req, in order
    direct,      \* history: the call made on the Product model itself, if one just was
    users,       \* the users collection: ObjectId -> document
    registers    \* the register requests in service: client -> its exchange

authVars == <<users, registers>>

vars == <<nodeEnv, products, created, deletedIds, req, received, before, chain, err,
          faulted, res, sent, ran, direct, authVars>>

productVars == <<products, created, deletedIds, req, received, before, chain, err,
                 faulted, res, sent, ran, direct>>

NoResponse == [status |-> 0, body |-> EmptyObj]

NoRequest == [method |-> "NONE", path |-> <<>>, token |-> "none",
              body |-> EmptyObj, query |-> EmptyObj]

\* No call on the model is being looked at.
NoDirect == [call |-> "none"]

Init ==
    /\ nodeEnv \in {"production", "development", "test", ""}
    /\ products = EmptyObj
    /\ created = 0
    /\ deletedIds = {}
    /\ req = NoRequest
    /\ received = NoRequest
    /\ before = EmptyObj
    /\ chain = <<>>
    /\ err = <<>>
    /\ faulted = FALSE
    /\ res = NoResponse
    /\ sent = 0
    /\ ran = <<>>
    /\ direct = NoDirect
    /\ users = EmptyObj
    /\ registers = EmptyObj

\* ------------------------------------------------------------ requests explored

NameOpts == {EmptyObj, [name |-> <<>>], [name |-> <<" ", "a">>]}

PriceOpts == {EmptyObj, [price |-> -10000], [price |-> 10990], [price |-> 10999]}

CategoryOpts == {EmptyObj, [category |-> <<"A">>], [category |-> <<"B">>]}

StockOpts == {EmptyObj, [stock |-> -5000], [stock |-> 5000], [stock |-> 2500]}

ProductBodies ==
    {Merge(Merge(Merge(n, p), c), s) :
        n \in NameOpts, p \in PriceOpts, c \in CategoryOpts, s \in StockOpts}

GoodBody == [name |-> <<" ", "a">>, price |-> 10990, category |-> <<"A">>, stock |-> 5000]

BadBody == [name |-> <<>>, price |-> -10000, stock |-> -5000]

\* Bodies that carry a field no schema declares.
UnknownBodies == {Merge(b, "_id" :> 1) : b \in {EmptyObj, GoodBody, BadBody}}

Tokens == {"none", "valid", "invalid", "expired"}

\* Queries every part of which is acceptable on its own.
FilterQueries ==
    {Merge(Merge(Merge(Merge(Merge(pg, lm), so), ca), mn), mx) :
        pg \in {EmptyObj, [page |-> <<"2">>]},
        lm \in {EmptyObj, [limit |-> <<"1">>]},
        so \in {EmptyObj, [sort |-> "price"]},
        ca \in {EmptyObj, [category |-> <<"A">>]},
        mn \in {EmptyObj, [minPrice |-> <<"0">>], [minPrice |-> <<"1", "1">>],
                [minPrice |-> <<"1", "2">>]},
        mx \in {EmptyObj, [maxPrice |-> <<"0">>], [maxPrice |-> <<"1", "1">>]}}

\* Queries with one part, or two, out of range or of the wrong type.
OddQueries ==
    {[page |-> <<"0">>], [page |-> <<"x">>], [limit |-> <<"0">>],
     [limit |-> <<"1", "0", "0">>], [limit |-> <<"1", "0", "1">>],
     [sort |-> "-updatedAt", limit |-> <<"x">>], [sort |-> "bogus"],
     [page |-> <<"0">>, limit |-> <<"0">>, category |-> <<" ">>],
     [category |-> <<" ", "B">>, search |-> <<"A">>],
     [search |-> <<"b">>, fields |-> <<"n">>]}

QueryInputs == FilterQueries \cup OddQueries

IdPaths == {<<[oid |-> i]>> : i \in 1..MaxCreates} \cup {<<[lit |-> "abc"]>>}

Request(m, p, t, b, q) == [method |-> m, path |-> p, token |-> t, body |-> b, query |-> q]

Requests ==
    {Request("GET", <<Stats>>, "none", EmptyObj, EmptyObj)}
    \cup {Request("GET", <<>>, "none", EmptyObj, q) : q \in QueryInputs}
    \cup {Request("GET", p, "none", EmptyObj, EmptyObj) : p \in IdPaths}
    \cup {Request("POST", <<>>, "valid", b, EmptyObj) :
            b \in ProductBodies \cup UnknownBodies}
    \cup {Request("POST", <<>>, t, b, EmptyObj) :
            t \in Tokens \ {"valid"}, b \in {GoodBody, BadBody}}
    \cup {Request("PUT", p, "valid", b, EmptyObj) :
            p \in IdPaths, b \in ProductBodies \cup UnknownBodies}
    \cup {Request("PUT", p, t, b, EmptyObj) :
            p \in IdPaths, t \in Tokens \ {"valid"}, b \in {GoodBody, BadBody}}
    \cup {Request("DELETE", p, t, EmptyObj, EmptyObj) : p \in IdPaths, t \in Tokens}

\* The plain requests: no query string and, if a body, GoodBody or BadBody.
PlainRequests ==
    {r \in Requests : r.query = EmptyObj /\ r.body \in {EmptyObj, GoodBody, BadBody}}

\* Every request is explored in production; the other environments differ
\* from it only in the error handler and are explored on the plain requests.
RequestsIn(env) == IF env = "production" THEN Requests ELSE PlainRequests

\* ------------------------------------------------------------ auth guard

\* auth(req, res, next): the bearer token of the Authorization header.
auth(request) ==
    LET refuse(code, message) ==
            [sends |-> <<[status |-> 401,
                          body |-> [success |-> FALSE,
                                    error |-> [message |-> message, code |-> S(code)]]]>>,
             next |-> FALSE, request |-> request]
    IN CASE request.token = "none" -> refuse("NO_TOKEN", "No token provided")
         [] request.token = "invalid" -> refuse("INVALID_TOKEN", "Invalid token")
         [] request.token = "expired" -> refuse("TOKEN_EXPIRED", "Token expired")
         [] request.token = "valid" -> [sends |-> <<>>, next |-> TRUE, request |-> request]

\* ------------------------------------------------------------ product controller

Ok(status, body) == [status |-> status, body |-> body]

\* What a handler does: the collection it leaves, the ids it deleted, and
\* either the response it sends or the error it hands to next().
Responds(store, gone, response) ==
    [products |-> store, deleted |-> gone, sends |-> <<response>>, throws |-> <<>>]

Throws(store, e) == [products |-> store, deleted |-> {}, sends |-> <<>>, throws |-> <<e>>]

NotFound ==
    [name |-> "Error", message |-> "Product not found", code |-> S("PRODUCT_NOT_FOUND"),
     statusCode |-> 404, stack |-> "trace"]

\* Mongoose refuses to cast a path segment that is no ObjectId.
CastError == [name |-> "CastError", message |-> "Cast to ObjectId failed", stack |-> "trace"]

IsObjectId(segment) == Has(segment, "oid")

Json(id, doc) == Put(doc, "_id", id)

\* ---- GET /

Contains(s, part) ==
    \E i \in 0..(Len(s) - Len(part)) : SubSeq(s, i + 1, i + Len(part)) = part

\* The filter the query builds: exact category, inclusive price range,
\* case-insensitive search in the name.
MatchesFilter(doc, q) ==
    /\ Has(q, "category") => doc.category = q.category
    /\ Has(q, "minPrice") => doc.price >= q.minPrice
    /\ Has(q, "maxPrice") => doc.price <= q.maxPrice
    /\ Has(q, "search") => Contains(LowerCase(doc.name), LowerCase(q.search))

Matching(store, q) == {id \in DOMAIN store : MatchesFilter(store[id], q)}

Descending(sort) ==
    sort \in {"-name", "-price", "-category", "-stock", "-createdAt", "-updatedAt"}

\* The numeric sort keys; the requests explored sort by price or creation time.
SortKey(doc, sort) ==
    CASE sort \in {"price", "-price"} -> doc.price
      [] sort \in {"stock", "-stock"} -> doc.stock
      [] sort \in {"createdAt", "-createdAt"} -> doc.createdAt

\* Every order of ids the store may return for the sort: equal keys in any order.
SortedOrders(store, ids, sort) ==
    {s \in [1..Cardinality(ids) -> ids] :
        /\ \A i, j \in DOMAIN s : i # j => s[i] # s[j]
        /\ \A i, j \in DOMAIN s : i < j =>
              IF Descending(sort)
              THEN SortKey(store[s[i]], sort) >= SortKey(store[s[j]], sort)
              ELSE SortKey(store[s[i]], sort) <= SortKey(store[s[j]], sort)}

Min(a, b) == IF a < b THEN a ELSE b

Window(s, skip, limit) ==
    IF skip >= Len(s) THEN <<>> ELSE SubSeq(s, skip + 1, Min(Len(s), skip + limit))

CeilDiv(a, b) == (a + b - 1) \div b

getProducts(request, store) ==
    LET q == request.query
        page == q.page \div 1000
        limit == q.limit \div 1000
        ids == Matching(store, q)
        total == Cardinality(ids)
    IN {Responds(store, {},
            Ok(200, [success |-> TRUE,
                     data |-> [i \in DOMAIN Window(s, (page - 1) * limit, limit) |->
                                  Json(Window(s, (page - 1) * limit, limit)[i],
                                       store[Window(s, (page - 1) * limit, limit)[i]])],
                     pagination |-> [page |-> page, limit |-> limit, total |-> total,
                                     totalPages |-> CeilDiv(total, limit)]])) :
          s \in SortedOrders(store, ids, q.sort)}

\* ---- GET /stats

Sum(store, ids) ==
    LET RECURSIVE go(_)
        go(rest) == IF rest = {} THEN 0
                    ELSE LET id == CHOOSE x \in rest : TRUE
                         IN store[id].price + go(rest \ {id})
    IN go(ids)

\* The mean of the prices, rounded to 2 decimals.
Average(store, ids) ==
    IF ids = {} THEN 0 ELSE RoundPrecision(Sum(store, ids) \div Cardinality(ids))

getProductStats(request, store) ==
    LET categories == {store[id].category : id \in DOMAIN store}
        group(c) == {id \in DOMAIN store : store[id].category = c}
    IN {Responds(store, {},
            Ok(200, [success |-> TRUE,
                     data |-> [overall |-> [totalProducts |-> Cardinality(DOMAIN store),
                                            averagePrice |-> Average(store, DOMAIN store)],
                               byCategory |-> [c \in categories |->
                                   [count |-> Cardinality(group(c)),
                                    averagePrice |-> Average(store, group(c))]]]]))}

\* ---- GET /:id

getProduct(request, store) ==
    LET segment == request.path[1]
    IN IF ~IsObjectId(segment) THEN {Throws(store, CastError)}
       ELSE IF segment.oid \notin DOMAIN store THEN {Throws(store, NotFound)}
       ELSE {Responds(store, {},
                Ok(200, [success |-> TRUE, data |-> Json(segment.oid, store[segment.oid])]))}

\* ---- POST /

createProduct(request, store, count) ==
    LET doc == ProductCast(Pick(request.body, ProductPaths))
        failures == ProductValidate(doc)
        id == IF Has(request.body, "_id") THEN request.body["_id"] ELSE count + 1
        saved == Put(PreSave(doc), "createdAt", count + 1)
    IN IF failures # <<>>
       THEN {Throws(store, [name |-> "ValidationError", message |-> "Product validation failed",
                            errors |-> failures, stack |-> "trace"])}
       ELSE IF id \in DOMAIN store
       THEN {Throws(store, [name |-> "MongoServerError", message |-> "E11000 duplicate key",
                            code |-> N(11000), keyValue |-> ("_id" :> id),
                            stack |-> "trace"])}
       ELSE {Responds(Put(store, id, saved), {},
                Ok(201, [success |-> TRUE, data |-> Json(id, saved)]))}

\* ---- PUT /:id

updateProduct(request, store) ==
    LET segment == request.path[1]
        id == segment.oid
        merged == Merge(store[id], ProductCast(Pick(request.body, ProductPaths)))
        failures == ProductValidate(merged)
        saved == PreSave(merged)
    IN IF ~IsObjectId(segment) THEN {Throws(store, CastError)}
       ELSE IF id \notin DOMAIN store THEN {Throws(store, NotFound)}
       ELSE IF failures # <<>>
       THEN {Throws(store, [name |-> "ValidationError", message |-> "Validation failed",
                            errors |-> failures, stack |-> "trace"])}
       ELSE {Responds(Put(store, id, saved), {},
                Ok(200, [success |-> TRUE, data |-> Json(id, saved)]))}

\* ---- DELETE /:id

deleteProduct(request, store) ==
    LET segment == request.path[1]
        id == segment.oid
    IN IF ~IsObjectId(segment) THEN {Throws(store, CastError)}
       ELSE IF id \notin DOMAIN store THEN {Throws(store, NotFound)}
       ELSE {Responds([x \in (DOMAIN store) \ {id} |-> store[x]], {id},
                Ok(200, [success |-> TRUE, message |-> "Product deleted successfully"]))}

\* ------------------------------------------------------------ store failures

\* What the driver may reject any store call with: a time-out, a refused
\* connection (a system error code), a server error (a numeric driver code).
StoreErrors ==
    {[name |-> "MongooseError", message |-> "Operation timed out", stack |-> "trace"],
     [name |-> "Error", message |-> "connect ECONNREFUSED", code |-> S("ECONNREFUSED"),
      stack |-> "trace"],
     [name |-> "MongoServerError", message |-> "not authorized", code |-> N(13),
      stack |-> "trace"]}

Handlers ==
    {"getProducts", "getProductStats", "getProduct", "createProduct", "updateProduct",
     "deleteProduct"}

\* Store failures are explored on the plain requests.
FaultExplored(request) == request.query = EmptyObj /\ request.body \in {EmptyObj, GoodBody}

\* ------------------------------------------------------------ actions

Idle == chain = <<>> /\ req = NoRequest /\ direct = NoDirect

\* The request has had its response (or has been left hanging).
Served == chain = <<>> /\ req # NoRequest

At(fn) == chain # <<>> /\ Head(chain).fn = fn

\* A request arrives and the router picks its route.
Receive(r) ==
    /\ Idle
    /\ HasRoute(r.method, r.path)
    /\ r.method = "POST" => created < MaxCreates
    /\ req' = r
    /\ received' = r
    /\ before' = products
    /\ chain' = Dispatch(r.method, r.path)
    /\ err' = <<>>
    /\ faulted' = FALSE
    /\ res' = NoResponse
    /\ sent' = 0
    /\ ran' = <<>>
    /\ UNCHANGED <<direct, authVars, nodeEnv, products, created, deletedIds>>

\* A middleware ran: it may have sent a response, and it called next() or not.
Middleware(o) ==
    /\ res' = IF o.sends # <<>> /\ sent = 0 THEN o.sends[1] ELSE res
    /\ sent' = sent + Len(o.sends)
    /\ req' = o.request
    /\ chain' = IF o.next THEN Tail(chain) ELSE <<>>
    /\ ran' = Append(ran, Head(chain).fn)
    /\ UNCHANGED <<direct, authVars, nodeEnv, products, created, deletedIds, received, before, err, faulted>>

Auth ==
    /\ At("auth")
    /\ Middleware(auth(req))

Validate ==
    /\ At("validate")
    /\ Middleware(validate(Head(chain).schema, Head(chain).property, req))

\* A handler ran: it changed the collection and responded, or it passed an
\* error on to the error handler.
Handler(o) ==
    /\ products' = o.products
    /\ deletedIds' = deletedIds \cup o.deleted
    /\ res' = IF o.sends # <<>> /\ sent = 0 THEN o.sends[1] ELSE res
    /\ sent' = sent + Len(o.sends)
    /\ err' = o.throws
    /\ chain' = IF o.throws # <<>> THEN <<[fn |-> "errorHandler"]>> ELSE <<>>
    /\ ran' = Append(ran, Head(chain).fn)
    /\ UNCHANGED <<direct, authVars, nodeEnv, req, received, before, faulted>>

GetProducts ==
    /\ At("getProducts")
    /\ \E o \in getProducts(req, products) : Handler(o)
    /\ UNCHANGED created

GetProductStats ==
    /\ At("getProductStats")
    /\ \E o \in getProductStats(req, products) : Handler(o)
    /\ UNCHANGED created

GetProduct ==
    /\ At("getProduct")
    /\ \E o \in getProduct(req, products) : Handler(o)
    /\ UNCHANGED created

CreateProduct ==
    /\ At("createProduct")
    /\ \E o \in createProduct(req, products, created) :
          /\ Handler(o)
          /\ created' = IF o.products # products THEN created + 1 ELSE created

UpdateProduct ==
    /\ At("updateProduct")
    /\ \E o \in updateProduct(req, products) : Handler(o)
    /\ UNCHANGED created

DeleteProduct ==
    /\ At("deleteProduct")
    /\ \E o \in deleteProduct(req, products) : Handler(o)
    /\ UNCHANGED created

\* The store call of a handler fails; the handler passes the error on.
StoreFailure(e) ==
    /\ chain # <<>> /\ Head(chain).fn \in Handlers
    /\ FaultExplored(req)
    /\ faulted' = TRUE
    /\ err' = <<e>>
    /\ chain' = <<[fn |-> "errorHandler"]>>
    /\ ran' = Append(ran, Head(chain).fn)
    /\ UNCHANGED <<direct, authVars, nodeEnv, products, created, deletedIds, req, received, before, res, sent>>

ErrorHandler ==
    /\ At("errorHandler")
    /\ res' = IF sent = 0 THEN errorHandler(err[1], nodeEnv) ELSE res
    /\ sent' = sent + 1
    /\ chain' = <<>>
    /\ ran' = Append(ran, "errorHandler")
    /\ UNCHANGED <<direct, authVars, nodeEnv, products, created, deletedIds, req, received, before, err,
                   faulted>>

\* The exchange is over; the server waits for the next request.
Finish ==
    /\ Served
    /\ req' = NoRequest
    /\ received' = NoRequest
    /\ before' = EmptyObj
    /\ err' = <<>>
    /\ faulted' = FALSE
    /\ res' = NoResponse
    /\ sent' = 0
    /\ ran' = <<>>
    /\ UNCHANGED <<direct, authVars, nodeEnv, products, created, deletedIds, chain>>

\* ---- calls on the Product model itself (the test set-up makes them)

\* The documents handed to Product.create.
DirectDocs ==
    {[name |-> <<" ", "a">>, price |-> 10999, category |-> <<"A">>, stock |-> 5000],
     [name |-> <<" ", "a">>, price |-> 10990, category |-> <<"B">>, stock |-> 2500],
     [name |-> <<" ", "a">>, price |-> 10990, category |-> <<"A">>, stock |-> -5000],
     [name |-> <<" ", "a">>, price |-> -10000, category |-> <<"A">>, stock |-> 5000]}

\* The paths set on a loaded document before it is saved again.
DirectChanges ==
    {[price |-> 10999], [stock |-> 2500], [stock |-> -5000],
     [price |-> 10999, stock |-> 2500], [category |-> <<"B">>]}

\* Product.create(doc).
ModelCreate(doc) ==
    /\ Idle
    /\ created < MaxCreates
    /\ LET r == ProductSave(doc)
       IN /\ products' = IF r.ok
                          THEN Put(products, created + 1, Put(r.doc, "createdAt", created + 1))
                          ELSE products
          /\ created' = IF r.ok THEN created + 1 ELSE created
          /\ direct' = [call |-> "create", doc |-> doc, before |-> products,
                        errors |-> r.errors]
    /\ UNCHANGED <<authVars, nodeEnv, deletedIds, req, received, before, chain, err,
                   faulted, res, sent, ran>>

\* product = await Product.findById(id); product.set(changes); product.save().
ModelUpdate(id, changes) ==
    /\ Idle
    /\ id \in DOMAIN products
    /\ LET r == ProductSave(Merge(products[id], changes))
       IN /\ products' = IF r.ok THEN Put(products, id, r.doc) ELSE products
          /\ direct' = [call |-> "save", doc |-> changes, before |-> products,
                        errors |-> r.errors]
    /\ UNCHANGED <<authVars, nodeEnv, created, deletedIds, req, received, before, chain,
                   err, faulted, res, sent, ran>>

\* The call has returned (or thrown) to its caller.
ModelReturn ==
    /\ direct # NoDirect
    /\ direct' = NoDirect
    /\ UNCHANGED <<authVars, nodeEnv, products, created, deletedIds, req, received,
                   before, chain, err, faulted, res, sent, ran>>

Next ==
    \/ \E r \in RequestsIn(nodeEnv) : Receive(r)
    \/ \E doc \in DirectDocs : ModelCreate(doc)
    \/ \E id \in 1..MaxCreates, changes \in DirectChanges : ModelUpdate(id, changes)
    \/ ModelReturn
    \/ Finish
    \/ Auth
    \/ Validate
    \/ GetProducts
    \/ GetProductStats
    \/ GetProduct
    \/ CreateProduct
    \/ UpdateProduct
    \/ DeleteProduct
    \/ \E e \in StoreErrors : StoreFailure(e)
    \/ ErrorHandler

Spec == Init /\ [][Next]_vars

\* ------------------------------------------------------------ User model

\* The setters of the user schema: email is stored in lower case.
UserCast(doc) ==
    [k \in DOMAIN doc |-> IF k = "email" THEN LowerCase(doc[k]) ELSE doc[k]]

\* The validators of the user schema: both paths required, password of 6 or more.
UserValidate(doc) ==
    (IF ~Has(doc, "email") \/ doc.email = <<>>
        THEN <<[field |-> "email", message |-> "Email is required"]>> ELSE <<>>)
    \o (IF ~Has(doc, "password") \/ doc.password = <<>>
        THEN <<[field |-> "password", message |-> "Password is required"]>>
     ELSE IF Len(doc.password) < 6
        THEN <<[field |-> "password", message |-> "Password is shorter than the minimum length"]>>
     ELSE <<>>)

\* The password as it is stored: a one-way hash of it.
HashPassword(password) == [hash |-> password]

\* The document a save would write: cast, validated, the password hashed and
\* the role defaulted.
UserSave(doc) ==
    LET cast == UserCast(Pick(doc, {"email", "password", "role"}))
        failures == UserValidate(cast)
    IN IF failures # <<>>
       THEN [ok |-> FALSE, errors |-> failures]
       ELSE [ok |-> TRUE, errors |-> <<>>,
             doc |-> [email |-> cast.email, password |-> HashPassword(cast.password),
                      role |-> IF Has(cast, "role") THEN cast.role ELSE "user"]]

\* The unique index on email: the stored values are compared as they are.
EmailTaken(store, email) == \E id \in DOMAIN store : store[id].email = email

\* The write of one document into the users collection, which the unique
\* index refuses with a duplicate key error.
UserInsert(store, doc) ==
    IF EmailTaken(store, doc.email)
    THEN [ok |-> FALSE, users |-> store,
          error |-> [name |-> "MongoServerError", message |-> "E11000 duplicate key",
                     code |-> N(11000), keyValue |-> [email |-> doc.email],
                     stack |-> "trace"]]
    ELSE [ok |-> TRUE, users |-> Put(store, Cardinality(DOMAIN store) + 1, doc),
          id |-> Cardinality(DOMAIN store) + 1]

\* ------------------------------------------------------------ auth router

\* The register route of the auth router (part_000 13-14).
AuthRoutes ==
    << [method |-> "POST", path |-> "/register",
        stack |-> <<[fn |-> "validate", schema |-> "registerSchema", property |-> "body"],
                    [fn |-> "register"]>>] >>

\* How many register requests are in service at once.
MaxClients == 2

Clients == 1..MaxClients

Email1 == <<"a", "@", "b", ".", "b">>

Email1Upper == <<"A", "@", "B", ".", "b">>

Email2 == <<"b", "@", "b", ".", "b">>

GoodPassword == <<"s", "e", "c", "r", "e", "t">>

RegisterBodies ==
    {[email |-> Email1, password |-> GoodPassword],
     [email |-> Email1Upper, password |-> GoodPassword],
     [email |-> Email2, password |-> GoodPassword],
     [email |-> <<"a">>, password |-> <<"s">>],
     [password |-> GoodPassword]}

\* Every body is explored in production; the other environments differ from it
\* only in the error handler and are explored on the two spellings of one
\* address.
RegisterBodiesIn(env) ==
    IF env = "production" THEN RegisterBodies
    ELSE {b \in RegisterBodies : Has(b, "email") /\ LowerCase(b.email) = Email1}

\* What the test set-up hands to User.create.
UserDocs == {[email |-> Email1Upper, password |-> GoodPassword]}

\* The public profile of a user: the document without its password.
Profile(id, doc) == [id |-> id, email |-> doc.email, role |-> doc.role]

\* ------------------------------------------------------------ auth actions

\* The exchange of client c: its request and how far the route has got.
InService(c) == c \in DOMAIN registers

AtRegister(c, fn) ==
    /\ InService(c)
    /\ registers[c].chain # <<>>
    /\ Head(registers[c].chain).fn = fn

\* Client c sends POST /register.
RegisterReceive(c, body) ==
    /\ ~InService(c)
    /\ registers' = Put(registers, c,
          [req |-> Request("POST", <<[lit |-> "register"]>>, "none", body, EmptyObj),
           received |-> body,
           chain |-> AuthRoutes[1].stack,
           doc |-> <<>>, err |-> <<>>, res |-> NoResponse, sent |-> 0, ran |-> <<>>,
           added |-> <<>>, taken |-> FALSE, raced |-> FALSE])
    /\ UNCHANGED <<nodeEnv, productVars, users>>

RegisterValidate(c) ==
    /\ AtRegister(c, "validate")
    /\ LET x == registers[c]
           o == validate(Head(x.chain).schema, Head(x.chain).property, x.req)
       IN registers' = Put(registers, c,
              [x EXCEPT !.res = IF o.sends # <<>> /\ x.sent = 0 THEN o.sends[1] ELSE x.res,
                        !.sent = x.sent + Len(o.sends),
                        !.req = o.request,
                        !.chain = IF o.next THEN Tail(x.chain) ELSE <<>>,
                        !.ran = Append(x.ran, "validate")])
    /\ UNCHANGED <<nodeEnv, productVars, users>>

\* register begins: User.create casts and validates the body and hashes the
\* password, during which other requests are served.
Register(c) ==
    /\ AtRegister(c, "register")
    /\ LET x == registers[c]
           r == UserSave(x.req.body)
       IN registers' = Put(registers, c,
              IF r.ok
              THEN [x EXCEPT !.doc = <<r.doc>>, !.chain = <<[fn |-> "insert"]>>,
                             !.ran = Append(x.ran, "register")]
              ELSE [x EXCEPT !.err = <<[name |-> "ValidationError",
                                        message |-> "User validation failed",
                                        errors |-> r.errors, stack |-> "trace"]>>,
                             !.chain = <<[fn |-> "errorHandler"]>>,
                             !.ran = Append(x.ran, "register")])
    /\ UNCHANGED <<nodeEnv, productVars, users>>

\* The other clients whose document for the same address is waiting to be
\* written.
Rivals(c) ==
    {d \in DOMAIN registers \ {c} :
        /\ registers[d].chain # <<>>
        /\ Head(registers[d].chain).fn = "insert"
        /\ LowerCase(registers[d].received.email) = LowerCase(registers[c].received.email)}

\* register goes on: the store writes the document or refuses it, and
\* register answers 201 with the profile and a token or passes the error on.
RegisterInsert(c) ==
    /\ AtRegister(c, "insert")
    /\ LET x == registers[c]
           w == UserInsert(users, x.doc[1])
           seen == [x EXCEPT !.ran = Append(x.ran, "insert"),
                             !.raced = Rivals(c) # {},
                             !.taken = \E id \in DOMAIN users :
                                 LowerCase(users[id].email) = LowerCase(x.received.email)]
       IN /\ users' = w.users
          /\ registers' = Put(registers, c,
                IF w.ok
                THEN [seen EXCEPT
                        !.added = <<w.id>>,
                        !.res = Ok(201, [success |-> TRUE,
                                         data |-> [user |-> Profile(w.id, x.doc[1]),
                                                   token |-> [sub |-> w.id]]]),
                        !.sent = x.sent + 1,
                        !.chain = <<>>]
                ELSE [seen EXCEPT !.err = <<w.error>>,
                                  !.chain = <<[fn |-> "errorHandler"]>>])
    /\ UNCHANGED <<nodeEnv, productVars>>

RegisterErrorHandler(c) ==
    /\ AtRegister(c, "errorHandler")
    /\ LET x == registers[c]
       IN registers' = Put(registers, c,
              [x EXCEPT !.res = IF x.sent = 0 THEN errorHandler(x.err[1], nodeEnv) ELSE x.res,
                        !.sent = x.sent + 1,
                        !.chain = <<>>,
                        !.ran = Append(x.ran, "errorHandler")])
    /\ UNCHANGED <<nodeEnv, productVars, users>>

\* The exchange of client c is over.
RegisterFinish(c) ==
    /\ InService(c)
    /\ registers[c].chain = <<>>
    /\ registers' = [d \in (DOMAIN registers) \ {c} |-> registers[d]]
    /\ UNCHANGED <<nodeEnv, productVars, users>>

\* User.create(doc), as the test set-up calls it.
UserCreate(doc) ==
    /\ LET r == UserSave(doc)
           w == UserInsert(users, r.doc)
       IN /\ r.ok
          /\ users' = w.users
    /\ UNCHANGED <<nodeEnv, productVars, registers>>

AuthNext ==
    \/ \E c \in Clients, body \in RegisterBodiesIn(nodeEnv) : RegisterReceive(c, body)
    \/ \E c \in Clients : RegisterValidate(c)
    \/ \E c \in Clients : Register(c)
    \/ \E c \in Clients : RegisterInsert(c)
    \/ \E c \in Clients : RegisterErrorHandler(c)
    \/ \E c \in Clients : RegisterFinish(c)
    \/ \E doc \in UserDocs : UserCreate(doc)

AuthSpec == Init /\ [][AuthNext]_vars

\* ------------------------------------------------------------ properties

HasRun(fn) == \E i \in DOMAIN ran : ran[i] = fn

HandlerRan == \E i \in DOMAIN ran : ran[i] \in Handlers

IsError(response, status, code) ==
    /\ response.status = status
    /\ Has(response.body, "error")
    /\ response.body.error.code = S(code)

Mutating == req.method \in {"POST", "PUT", "DELETE"}

\* C1: a request to POST /, PUT /:id or DELETE /:id without a bearer token
\* never reaches its handler and never changes the collection, and is answered
\* 401 NO_TOKEN; GET requests are served without the auth guard running.
C1_NoTokenRejected ==
    /\ (Mutating /\ req.token = "none") =>
          /\ ~HandlerRan
          /\ products = before
          /\ Served => (IsError(res, 401, "NO_TOKEN") /\ sent = 1)
    /\ req.method = "GET" =>
          /\ ~HasRun("auth")
          /\ res.status # 401
          /\ (Served /\ ~HasRun("validate")) => HandlerRan

C1_Witness ==
    /\ Served
    /\ req.method = "DELETE" /\ req.token = "none"
    /\ req.path[1] \in {[oid |-> i] : i \in DOMAIN products}
    /\ IsError(res, 401, "NO_TOKEN")

\* The part of the request a route's validation gate checks, and its schema.
GateProperty == IF req.method = "GET" THEN "query" ELSE "body"

GateSchema ==
    CASE req.method = "GET" -> querySchema
      [] req.method = "POST" -> createProductSchema
      [] req.method = "PUT" -> updateProductSchema

Declared(schema) == {schema.keys[i] : i \in 1..Len(schema.keys)}

GateRejected == ran # <<>> /\ ran[Len(ran)] = "validate" /\ chain = <<>>

GatePassed == HasRun("validate") /\ ~GateRejected

\* C2: the validation gate either answers 400 VALIDATION_ERROR and stops
\* (no handler runs, the collection and the request stay as they were), or
\* sends nothing, replaces the validated part by a value that has only
\* schema-declared keys and hands on to the next stage once; a request never
\* gets two responses.
C2_GateRejectsOrContinues ==
    /\ sent <= 1
    /\ GateRejected =>
          /\ IsError(res, 400, "VALIDATION_ERROR")
          /\ sent = 1
          /\ ~HandlerRan
          /\ products = before
          /\ req = received
          /\ JoiValidate(GateSchema, received[GateProperty], GateProperty = "query",
                         validateOptions).errors # <<>>
    /\ GatePassed =>
          /\ DOMAIN req[GateProperty] \subseteq Declared(GateSchema)
          /\ JoiValidate(GateSchema, received[GateProperty], GateProperty = "query",
                         validateOptions).errors = <<>>
          /\ ran[Len(ran)] = "validate" =>
                /\ sent = 0
                /\ res = NoResponse
                /\ Len(chain) = 1 /\ Head(chain).fn \in Handlers
          /\ Cardinality({i \in DOMAIN ran : ran[i] \in Handlers}) <= 1

C2_Witness ==
    /\ GatePassed
    /\ HandlerRan
    /\ req.method = "POST"
    /\ Has(received.body, "_id")
    /\ ~Has(req.body, "_id")
    /\ res.status = 201

\* The fields of a product body that break a rule of the create schema
\* (required = TRUE) or of the update schema: stated from the schemas' rules,
\* not from the validation run. More than 2 decimals in price is C4's subject.
BrokenFields(body, required) ==
    {k \in {"name", "category"} :
        IF Has(body, k) THEN Trim(body[k]) = <<>> ELSE required}
    \cup {k \in {"price"} :
        IF Has(body, k) THEN RoundPrecision(body[k]) <= 0 ELSE required}
    \cup {k \in {"stock"} :
        IF Has(body, k) THEN body[k] < 0 \/ body[k] % 1000 # 0 ELSE required}

\* C3: when the gate rejects a product body, error.details names every field
\* that breaks a rule (so {name:"", price:-10, stock:-5} gives at least 3
\* entries), every entry has a field and a message, and it has the offending
\* value whenever the body gave one.
C3_AllViolationsListed ==
    (GateRejected /\ req.method \in {"POST", "PUT"}) =>
        LET details == res.body.error.details
            broken == BrokenFields(received.body, req.method = "POST")
        IN /\ \A k \in broken : \E i \in DOMAIN details : details[i].field = k
           /\ Len(details) >= Cardinality(broken)
           /\ Len(details) >= 1
           /\ \A i \in DOMAIN details :
                 /\ details[i].field \in broken \cup {""}
                 /\ Has(details[i], "message")
                 /\ Has(details[i], "value")
                       <=> (details[i].field = "" \/ Has(received.body, details[i].field))
           /\ Pick(received.body, ProductPaths) = BadBody => Len(details) >= 3

C3_Witness ==
    /\ GateRejected
    /\ req.method = "POST"
    /\ received.body = BadBody
    /\ Len(res.body.error.details) = 4
    /\ {res.body.error.details[i].field : i \in 1..4} = {"name", "price", "category", "stock"}

\* C4: an authenticated POST / or PUT /:id whose price has more than 2
\* decimals is answered 400 VALIDATION_ERROR by the gate and persists nothing.
C4_ExcessPrecisionRejected ==
    (/\ Served
     /\ req.method \in {"POST", "PUT"}
     /\ req.token = "valid"
     /\ Has(received.body, "price")
     /\ received.body.price % 10 # 0)
        => (GateRejected /\ IsError(res, 400, "VALIDATION_ERROR") /\ products = before)

\* The bounds of a price range query as numbers, when both are acceptable.
RangeGiven(q) ==
    /\ Has(q, "minPrice") /\ ParseNumber(q.minPrice).ok
    /\ Has(q, "maxPrice") /\ ParseNumber(q.maxPrice).ok

\* C5: a GET / query whose minPrice and maxPrice are both given and valid
\* (0 included) with maxPrice < minPrice is answered 400 VALIDATION_ERROR and
\* does not reach the list handler.
C5_InvertedRangeRejected ==
    (/\ Served
     /\ req.method = "GET" /\ req.path = <<>>
     /\ RangeGiven(received.query)
     /\ ParseNumber(received.query.maxPrice).n < ParseNumber(received.query.minPrice).n)
        => (GateRejected /\ IsError(res, 400, "VALIDATION_ERROR") /\ ~HasRun("getProducts"))

\* A request for /:id that reached its handler while the store worked.
IdRequestHandled ==
    /\ Served
    /\ Len(req.path) = 1 /\ req.path[1] # Stats
    /\ HandlerRan
    /\ ~faulted

TaxonomyKinds ==
    {S("VALIDATION_ERROR"), S("NO_TOKEN"), S("INVALID_TOKEN"), S("TOKEN_EXPIRED"),
     S("INVALID_CREDENTIALS"), S("PRODUCT_NOT_FOUND"), S("DUPLICATE_FIELD"),
     S("INTERNAL_ERROR")}

\* An error the handler has no case for: no cast, duplicate-key, model
\* validation or JWT error, and none that carries a taxonomy kind and a status.
Unrecognised(e) ==
    /\ e.name \notin {"CastError", "ValidationError", "JsonWebTokenError", "TokenExpiredError"}
    /\ ~(Has(e, "code") /\ e.code = N(11000))
    /\ ~(Has(e, "code") /\ Has(e, "statusCode") /\ e.code \in TaxonomyKinds)

\* C7: an error of no recognised kind is answered 500 INTERNAL_ERROR,
\* whatever else (a driver or system code) it carries.
C7_UnrecognisedIsInternalError ==
    (Served /\ HasRun("errorHandler") /\ Unrecognised(err[1]))
        => IsError(res, 500, "INTERNAL_ERROR")

\* C8 as claimed: the error handler's response has a stack exactly when
\* NODE_ENV is not production.
C8_StackOutsideProduction ==
    (Served /\ HasRun("errorHandler"))
        => (Has(res.body.error, "stack") <=> nodeEnv # "production")

\* C8, amended: the error handler's response has a stack exactly when
\* NODE_ENV is development (and the error has one): not in production, and
\* not in test or with NODE_ENV unset either.
C8_StackOnlyInDevelopment ==
    (Served /\ HasRun("errorHandler"))
        => (Has(res.body.error, "stack")
                <=> (nodeEnv = "development" /\ Has(err[1], "stack")))

C8_Witness ==
    /\ Served
    /\ HasRun("errorHandler")
    /\ nodeEnv = "test"
    /\ Has(err[1], "stack")
    /\ ~Has(res.body.error, "stack")

\* An authenticated DELETE of an id that an earlier DELETE removed, served
\* while the store worked.
RepeatedDelete ==
    /\ Served
    /\ req.method = "DELETE" /\ req.token = "valid"
    /\ IsObjectId(req.path[1])
    /\ req.path[1].oid \in deletedIds
    /\ req.path[1].oid \notin DOMAIN before
    /\ ~faulted

\* C9: an id that a DELETE removed is in the collection no more, whatever
\* happens to other products; a later authenticated DELETE of it is answered
\* 404 PRODUCT_NOT_FOUND and changes nothing, and GET finds it no more.
C9_DeleteIsFinal ==
    /\ deletedIds \cap DOMAIN products = {}
    /\ RepeatedDelete => (IsError(res, 404, "PRODUCT_NOT_FOUND") /\ products = before)
    /\ (/\ Served /\ req.method = "GET" /\ Len(req.path) = 1 /\ IsObjectId(req.path[1])
        /\ req.path[1].oid \in deletedIds /\ ~faulted)
          => IsError(res, 404, "PRODUCT_NOT_FOUND")

C9_Witness ==
    /\ RepeatedDelete
    /\ products # EmptyObj
    /\ created = MaxCreates
    /\ IsError(res, 404, "PRODUCT_NOT_FOUND")

\* The list was served.
Listed == Served /\ req.method = "GET" /\ req.path = <<>> /\ res.status = 200

\* Whether a document passes the filter of the query string as it arrived.
InFilter(doc, raw) ==
    /\ Has(raw, "category") => doc.category = Trim(raw.category)
    /\ Has(raw, "minPrice") => doc.price >= ParseNumber(raw.minPrice).n
    /\ Has(raw, "maxPrice") => doc.price <= ParseNumber(raw.maxPrice).n
    /\ Has(raw, "search") =>
          Contains(LowerCase(doc.name), LowerCase(Trim(raw.search)))

\* The document a comes before b, or ties with it, under the sort.
NotAfter(a, b, sort) ==
    IF Descending(sort) THEN SortKey(a, sort) >= SortKey(b, sort)
    ELSE SortKey(a, sort) <= SortKey(b, sort)

\* C10: a served list has page >= 1 and 1 <= limit <= 100 (1 and 10 when not
\* given), at most limit items, total = the number of products that pass the
\* filter, totalPages = ceil(total / limit), and as items the positions
\* (page-1)*limit+1 .. page*limit of the filtered products in sort order.
C10_PaginationWindow ==
    Listed =>
        LET raw == received.query
            items == res.body.data
            page == res.body.pagination.page
            limit == res.body.pagination.limit
            total == res.body.pagination.total
            totalPages == res.body.pagination.totalPages
            sort == IF Has(raw, "sort") THEN raw.sort ELSE "-createdAt"
            passing == {id \in DOMAIN products : InFilter(products[id], raw)}
            skip == (page - 1) * limit
            rest == IF total > skip THEN total - skip ELSE 0
            doc(i) == products[items[i]["_id"]]
        IN /\ page >= 1 /\ limit >= 1 /\ limit <= 100
           /\ 1000 * page = (IF Has(raw, "page") THEN ParseNumber(raw.page).n ELSE 1000)
           /\ 1000 * limit = (IF Has(raw, "limit") THEN ParseNumber(raw.limit).n ELSE 10000)
           /\ Len(items) <= limit
           /\ total = Cardinality(passing)
           /\ totalPages * limit >= total /\ (totalPages - 1) * limit < total
           /\ Len(items) = (IF rest < limit THEN rest ELSE limit)
           /\ \A i \in DOMAIN items :
                 /\ items[i]["_id"] \in passing
                 /\ items[i] = Json(items[i]["_id"], doc(i))
                 /\ \A j \in DOMAIN items : i # j => items[i]["_id"] # items[j]["_id"]
                 /\ Cardinality({id \in passing : ~NotAfter(doc(i), products[id], sort)})
                       <= skip + i - 1
                 /\ Cardinality({id \in passing : NotAfter(products[id], doc(i), sort)})
                       >= skip + i

C10_Witness ==
    /\ Listed
    /\ Has(received.query, "page") /\ res.body.pagination.page = 2
    /\ res.body.pagination.limit = 1
    /\ res.body.pagination.total = 2
    /\ res.body.pagination.totalPages = 2
    /\ Len(res.body.data) = 1
    /\ Has(received.query, "maxPrice")

\* ------------------------------------------------------------ C11

BadStock(o) == Has(o, "stock") /\ (o.stock < 0 \/ o.stock % 1000 # 0)

\* C11: every persisted product has a price of at most 2 fractional digits
\* and a stock that is a non-negative integer, whatever creates and updates
\* came through the API or through the model's save; a request or a model
\* call that carries a negative or non-integer stock is refused and leaves
\* the collection as it was.
C11_PersistedPriceAndStock ==
    /\ \A id \in DOMAIN products :
          /\ products[id].price % 10 = 0
          /\ products[id].stock >= 0
          /\ products[id].stock % 1000 = 0
    /\ (req.method \in {"POST", "PUT"} /\ BadStock(received.body)) =>
          /\ products = before
          /\ ~HandlerRan
          /\ Served => (res.status \in {400, 401} /\ res.body.success = FALSE)
    /\ (direct # NoDirect /\ BadStock(direct.doc)) =>
          /\ direct.errors # <<>>
          /\ products = direct.before

\* A price given as 10.999 to the model was stored as 11, and a later save
\* with a fractional stock was refused.
C11_Witness ==
    /\ direct # NoDirect
    /\ direct.call = "save"
    /\ BadStock(direct.doc)
    /\ direct.errors # <<>>
    /\ \E id \in DOMAIN products :
          products[id].price = 11000 /\ products[id].category = <<"A">>

\* ------------------------------------------------------------ C12

SameAddress(a, b) == LowerCase(a) = LowerCase(b)

RegisterServed(c) == InService(c) /\ registers[c].chain = <<>>

\* C12: no two stored users have the same email compared without regard to
\* case; a register request whose email was already stored when its document
\* came to be written adds no user and is answered 400 DUPLICATE_FIELD; of
\* the register requests in service for one address at most one is answered
\* 201.
C12_EmailUnique ==
    /\ \A i, j \in DOMAIN users :
          SameAddress(users[i].email, users[j].email) => i = j
    /\ \A c \in DOMAIN registers :
          /\ registers[c].taken =>
                /\ registers[c].added = <<>>
                /\ RegisterServed(c) =>
                      (IsError(registers[c].res, 400, "DUPLICATE_FIELD")
                          /\ registers[c].sent = 1)
          /\ registers[c].res.status = 201 =>
                /\ registers[c].added # <<>>
                /\ users[registers[c].added[1]].email = LowerCase(registers[c].received.email)
    /\ \A c, d \in DOMAIN registers :
          (/\ registers[c].res.status = 201
           /\ registers[d].res.status = 201
           /\ SameAddress(registers[c].received.email, registers[d].received.email))
              => c = d

\* Two register requests for one address, spelt in different case, had both
\* got as far as the write; one was answered 201 and the other 400
\* DUPLICATE_FIELD.
C12_Witness ==
    \E c, d \in DOMAIN registers :
        /\ registers[c].received = [email |-> Email1, password |-> GoodPassword]
        /\ registers[d].received = [email |-> Email1Upper, password |-> GoodPassword]
        /\ registers[c].raced
        /\ registers[c].res.status = 201
        /\ RegisterServed(d)
        /\ registers[d].taken
        /\ IsError(registers[d].res, 400, "DUPLICATE_FIELD")
        /\ Cardinality(DOMAIN users) = 1

\* ------------------------------------------------------------ C13

\* The request is for POST / or PUT /:id, the routes with a gate and a guard.
GatedAndGuarded == req.method \in {"POST", "PUT"}

\* The body breaks a rule of its schema.
InvalidBody == BrokenFields(received.body, req.method = "POST") # {}

\* C13: on POST / and PUT /:id the validation gate runs before the auth
\* guard: the guard runs only for a request that passed the gate, and a
\* request with an invalid body and no valid token is answered 400
\* VALIDATION_ERROR.
C13_GateBeforeGuard ==
    GatedAndGuarded =>
        /\ HasRun("auth") => (ran[1] = "validate" /\ ran[2] = "auth")
        /\ (Served /\ InvalidBody /\ req.token # "valid") =>
              IsError(res, 400, "VALIDATION_ERROR")

\* C13, as the router has it: on POST / and PUT /:id the auth guard runs
\* before the validation gate: the gate runs only for a request with a valid
\* token, a request with an invalid body and no valid token is answered 401
\* by the guard, and one with an invalid body and a valid token is answered
\* 400 VALIDATION_ERROR by the gate.
C13_GuardBeforeGate ==
    GatedAndGuarded =>
        /\ HasRun("validate") =>
              (ran[1] = "auth" /\ ran[2] = "validate" /\ req.token = "valid")
        /\ (Served /\ req.token # "valid") =>
              /\ ran = <<"auth">>
              /\ res.status = 401
              /\ res.body.error.code =
                    S(CASE req.token = "none" -> "NO_TOKEN"
                        [] req.token = "invalid" -> "INVALID_TOKEN"
                        [] req.token = "expired" -> "TOKEN_EXPIRED")
              /\ sent = 1
        /\ (Served /\ InvalidBody /\ req.token = "valid") =>
              (ran = <<"auth", "validate">> /\ IsError(res, 400, "VALIDATION_ERROR"))

\* A PUT with the body {name: "", price: -10, stock: -5} and no token for a
\* stored product was answered 401 NO_TOKEN by the guard alone.
C13_Witness ==
    /\ Served
    /\ req.method = "PUT"
    /\ req.path[1] \in {[oid |-> i] : i \in DOMAIN products}
    /\ received.body = BadBody
    /\ req.token = "none"
    /\ ran = <<"auth">>
    /\ IsError(res, 401, "NO_TOKEN")

\* ------------------------------------------------------------ C14

\* The request is GET /stats.
ForStats == req.method = "GET" /\ req.path = <<Stats>>

\* C14: GET /stats goes to the statistics handler and never to the
\* get-by-id handler with the id "stats": whatever the collection holds it is
\* not answered 404 or with an INVALID_ID or PRODUCT_NOT_FOUND error, and
\* unless the store itself fails it is answered 200 with the statistics.
C14_StatsRouteFirst ==
    ForStats =>
        /\ ~HasRun("getProduct")
        /\ chain # <<>> => Head(chain).fn \in {"getProductStats", "errorHandler"}
        /\ ran # <<>> => ran[1] = "getProductStats"
        /\ Served =>
              /\ res.status # 404
              /\ ~IsError(res, res.status, "INVALID_ID")
              /\ ~IsError(res, res.status, "PRODUCT_NOT_FOUND")
              /\ ~faulted =>
                    /\ res.status = 200
                    /\ res.body.data.overall.totalProducts = Cardinality(DOMAIN products)

\* GET /stats was answered 200 with the statistics of a collection of two
\* products.
C14_Witness ==
    /\ ForStats
    /\ Served
    /\ ran = <<"getProductStats">>
    /\ res.status = 200
    /\ res.body.data.overall.totalProducts = 2

====
